---- MODULE Spec2Model ----
(***************************************************************************)
(* Model of scripts/orchestrate.py: ConsensusOrchestrator.orchestrate and  *)
(* the phases it calls.  One variable per field of the orchestrator and    *)
(* per local of orchestrate; pc is the position inside orchestrate.        *)
(***************************************************************************)
EXTENDS Integers, Sequences, FiniteSets, TLC

\* ------------------------------------------------------------------ bounds
\* Largest max_iterations the orchestrator is constructed with.
MaxIter == 3

\* Largest max_iterations of the runs checked for termination.
MaxLiveIter == 2

\* Longest vote list given to tally_votes and check_consensus on their own.
MaxVotes == 4

\* ------------------------------------------------------- program constants
\* The three voting models of phase2_vote, in the order of its loop.
Agents == <<"Gemini", "Codex", "Opus">>

\* Python's None (labels are strings, so None is a string no label equals).
None == "None"

\* Variant: a majority of two is taken for unanimity.
UnanimousCount_Two == 3 - 1

\* check_consensus: "if count == 3".
UnanimousCount == 3

\* phase3_dissent: "if v == 1".
MinorityCount == 1

\* ------------------------------------------------------------------ inputs
\* An agent's request produced no Vote (timeout).
NoVote == "NoVote"

\* Vote.choice is a free str: the labels the agents answer with.  "Alt_0" is
\* not a key of the Proposal Set in round 0, nor later when no alternative
\* was generated, so it also stands for a vote on an unknown label.
Choices == {"A", "B", "Alt_0"}

\* Outcome of one agent's vote request: a chosen label, or no vote.
RequestVote == Choices \cup {NoVote}

\* ------------------------------------------------------------ dict helpers
\* Variant: the stored value is ignored.
DictGet_Default(d, k, default) == default

\* dict.get(k, default)
DictGet(d, k, default) == IF k \in DOMAIN d THEN d[k] ELSE default

\* d[k] = v  (adds the key or overwrites its value; other keys untouched)
DictSet(d, k, v) == [x \in (DOMAIN d) \cup {k} |-> IF x = k THEN v ELSE d[x]]

\* {}
EmptyDict == << >>

\* Variant: the test is inverted ("if not winner").
Truthy_Inverted(x) == ~(x # None /\ x # "")

\* Python truthiness of an Optional[str]: None and "" are falsy.
Truthy(x) == x # None /\ x # ""

\* ------------------------------------------------------------------ phases
\* phase1_opus_proposes: the three initial proposals.
Proposal(name, complexity) ==
    [name |-> name, description |-> "...", rationale |-> "...",
     tradeoffs |-> "...", complexity |-> complexity, risks |-> "..."]

phase1_opus_proposes ==
    [A |-> Proposal("Approach A", "Medium"),
     B |-> Proposal("Approach B", "Low"),
     C |-> Proposal("Approach C", "High")]

\* Vote dataclass, as built in phase2_vote.
Vote(model, choice) ==
    [model |-> model, choice |-> choice, confidence |-> "High",
     reasoning |-> "...", concerns |-> "..."]

\* phase2_vote: one Vote per model, appended in the order of Agents; resp[i]
\* is what the i-th model answered.
phase2_vote(resp) == [i \in 1..Len(Agents) |-> Vote(Agents[i], resp[i])]

\* Vote Collector: the votes of the agents that responded, in order; an agent
\* whose request produced no vote is an abstention and leaves no Vote.
Responded(votes) == SelectSeq(votes, LAMBDA v : v.choice # NoVote)

\* tally_votes: the loop "tally[vote.choice] = tally.get(vote.choice, 0) + 1"
\* from vote i on, with the tally accumulated so far.
RECURSIVE TallyFrom(_, _, _)
TallyFrom(votes, i, tally) ==
    IF i > Len(votes) THEN tally
    ELSE TallyFrom(votes, i + 1,
                   DictSet(tally, votes[i].choice,
                           DictGet(tally, votes[i].choice, 0) + 1))

\* Variant: the loop starts at the second vote.
tally_votes_skipfirst(votes) == TallyFrom(votes, 2, EmptyDict)

tally_votes(votes) == TallyFrom(votes, 1, EmptyDict)

\* Variant: the label with the most votes wins (plurality).
check_consensus_plurality(tally) ==
    IF DOMAIN tally # {}
    THEN CHOOSE p \in DOMAIN tally : \A q \in DOMAIN tally : tally[q] <= tally[p]
    ELSE None

\* check_consensus: the first label whose count == 3, else None.  The counts
\* of a tally of at most three votes leave at most one such label, so the
\* dict's iteration order does not matter.
check_consensus(tally) ==
    IF \E p \in DOMAIN tally : tally[p] = UnanimousCount
    THEN CHOOSE p \in DOMAIN tally : tally[p] = UnanimousCount
    ELSE None

\* Variant: the alternative is numbered from one.
AltName_OneBased(iteration) == "Alt_" \o ToString(iteration + 1)

\* f"Alt_{iteration}"
AltName(iteration) == "Alt_" \o ToString(iteration)

\* The alternative's content stored by phase3_dissent.
AltProposal(iteration) ==
    Proposal("Alternative " \o ToString(iteration), "Medium")

\* Variant: the alternative is returned in a fresh dict.
phase3_dissent_fresh(proposals, tally, iteration) ==
    LET minority_votes == {k \in DOMAIN tally : tally[k] = MinorityCount}
    IN  IF minority_votes = {} THEN proposals
        ELSE DictSet(EmptyDict, AltName(iteration), AltProposal(iteration))

\* Variant: the alternative is numbered by the size of the Proposal Set.
phase3_dissent_bycount(proposals, tally, iteration) ==
    LET minority_votes == {k \in DOMAIN tally : tally[k] = MinorityCount}
    IN  IF minority_votes = {} THEN proposals
        ELSE DictSet(proposals,
                     "Alt_" \o ToString(Cardinality(DOMAIN proposals)),
                     AltProposal(iteration))

\* phase3_dissent: with no label of count 1 the dict is returned as it is;
\* otherwise proposals[alt_name] is assigned and the same dict returned.
phase3_dissent(proposals, tally, iteration) ==
    LET minority_votes == {k \in DOMAIN tally : tally[k] = MinorityCount}
    IN  IF minority_votes = {} THEN proposals
        ELSE DictSet(proposals, AltName(iteration), AltProposal(iteration))

\* Variant: the range includes its upper end.
InRange_Inclusive(i, n) == 0 <= i /\ i <= n

\* Variant: the range stops one index early.
InRange_Short(i, n) == 0 <= i /\ i < n - 1

\* range(max_iterations) yields the index i.
InRange(i, n) == 0 <= i /\ i < n

\* Variant: the last iteration counts as having iterations left.
IterationsRemain_Last(iteration, n) == iteration < n

\* "if iteration < self.max_iterations - 1"
IterationsRemain(iteration, n) == iteration < n - 1

\* ------------------------------------------------------------------- state
VARIABLES
    problem, context, max_iterations,      \* fields set by __init__
    rounds, human_decision, final_solution,
    proposals, iteration, votes, tally, winner,   \* locals of orchestrate
    bound,       \* names of the locals that are bound
    pc,          \* position in orchestrate
    result,      \* value returned by orchestrate
    hist,        \* history: one record per round voted and tallied
    generated,   \* history: every <<label, content>> ever put in proposals
    dissents     \* history: the iterations at which phase3_dissent was called

fields == <<problem, context, max_iterations, rounds, human_decision,
            final_solution>>
locals == <<proposals, iteration, votes, tally, winner, bound>>
vars == <<fields, locals, pc, result, hist, generated, dissents>>

NoResult == [status |-> "none"]

\* The <<label, content>> pairs that are in the dict new and were not in old.
Added(old, new) ==
    {<<l, new[l]>> : l \in {x \in DOMAIN new : x \notin DOMAIN old \/ new[x] # old[x]}}

\* __init__ followed by the entry of orchestrate; the locals are unbound.
Init ==
    /\ problem = "problem"
    /\ context = ""
    /\ max_iterations \in 0..MaxIter
    /\ rounds = << >>
    /\ human_decision = None
    /\ final_solution = None
    /\ proposals = EmptyDict
    /\ iteration = -1
    /\ votes = << >>
    /\ tally = EmptyDict
    /\ winner = None
    /\ bound = {}
    /\ pc = "proposing"
    /\ result = NoResult
    /\ hist = << >>
    /\ generated = {}
    /\ dissents = << >>

\* "proposals = self.phase1_opus_proposes()", then the head of the for loop.
Phase1 ==
    /\ pc = "proposing"
    /\ proposals' = phase1_opus_proposes
    /\ IF InRange(0, max_iterations)
       THEN /\ iteration' = 0
            /\ bound' = bound \cup {"proposals", "iteration"}
            /\ pc' = "voting"
       ELSE /\ iteration' = iteration
            /\ bound' = bound \cup {"proposals"}
            /\ pc' = "escalating"
    /\ generated' = generated \cup Added(proposals, proposals')
    /\ UNCHANGED <<fields, votes, tally, winner, result, hist, dissents>>

\* "votes = self.phase2_vote(proposals, iteration)"
Phase2Vote ==
    /\ pc = "voting"
    /\ \E resp \in [1..Len(Agents) -> RequestVote] :
          votes' = Responded(phase2_vote(resp))
    /\ bound' = bound \cup {"votes"}
    /\ pc' = "tallying"
    /\ UNCHANGED <<fields, proposals, iteration, tally, winner, result, hist,
                   generated, dissents>>

\* Variant: tallying drops the proposals that received no vote.
Tally_DropUnvoted ==
    /\ pc = "tallying"
    /\ tally' = tally_votes(votes)
    /\ proposals' = [l \in (DOMAIN proposals) \cap (DOMAIN tally') |-> proposals[l]]
    /\ bound' = bound \cup {"tally"}
    /\ pc' = "checking"
    /\ UNCHANGED <<fields, iteration, votes, winner, result, hist,
                   generated, dissents>>

\* "tally = self.tally_votes(votes)"
Tally ==
    /\ pc = "tallying"
    /\ tally' = tally_votes(votes)
    /\ bound' = bound \cup {"tally"}
    /\ pc' = "checking"
    /\ UNCHANGED <<fields, proposals, iteration, votes, winner, result, hist,
                   generated, dissents>>

\* "winner = self.check_consensus(tally)"
CheckConsensus ==
    /\ pc = "checking"
    /\ winner' = check_consensus(tally)
    /\ bound' = bound \cup {"winner"}
    /\ pc' = "decided"
    /\ hist' = Append(hist, [iteration |-> iteration,
                             labels |-> DOMAIN proposals,
                             nvotes |-> Len(votes),
                             tally |-> tally,
                             winner |-> winner'])
    /\ UNCHANGED <<fields, proposals, iteration, votes, tally, result,
                   generated, dissents>>

\* Variant: the consensus return leaves final_solution as it was.
ReturnConsensus_NoFinal ==
    /\ pc = "decided"
    /\ Truthy(winner)
    /\ result' = [status |-> "consensus", iteration |-> iteration + 1,
                  winner |-> winner, votes |-> votes]
    /\ pc' = "done"
    /\ UNCHANGED <<fields, locals, hist, generated, dissents>>

\* "if winner:" taken: final_solution is set and the consensus result returned.
ReturnConsensus ==
    /\ pc = "decided"
    /\ Truthy(winner)
    /\ final_solution' = winner
    /\ result' = [status |-> "consensus", iteration |-> iteration + 1,
                  winner |-> winner, votes |-> votes]
    /\ pc' = "done"
    /\ UNCHANGED <<problem, context, max_iterations, rounds, human_decision,
                   locals, hist, generated, dissents>>

\* No winner and iterations remain: phase3_dissent, then the next iteration.
Dissent ==
    /\ pc = "decided"
    /\ ~Truthy(winner)
    /\ IterationsRemain(iteration, max_iterations)
    /\ proposals' = phase3_dissent(proposals, tally, iteration)
    /\ IF InRange(iteration + 1, max_iterations)
       THEN iteration' = iteration + 1 /\ pc' = "voting"
       ELSE iteration' = iteration /\ pc' = "escalating"
    /\ generated' = generated \cup Added(proposals, proposals')
    /\ dissents' = Append(dissents, iteration)
    /\ UNCHANGED <<fields, votes, tally, winner, bound, result, hist>>

\* No winner in the last iteration: the for loop is exhausted.
LoopExhausted ==
    /\ pc = "decided"
    /\ ~Truthy(winner)
    /\ ~IterationsRemain(iteration, max_iterations)
    /\ IF InRange(iteration + 1, max_iterations)
       THEN iteration' = iteration + 1 /\ pc' = "voting"
       ELSE iteration' = iteration /\ pc' = "escalating"
    /\ UNCHANGED <<fields, proposals, votes, tally, winner, bound, result,
                   hist, generated, dissents>>

\* Variant: the escalation reports the initial proposals.
Escalate_Initial ==
    /\ pc = "escalating"
    /\ {"tally", "proposals"} \subseteq bound
    /\ result' = [status |-> "escalated", iterations |-> max_iterations,
                  final_tally |-> tally, proposals |-> phase1_opus_proposes,
                  awaiting_human_decision |-> TRUE]
    /\ pc' = "done"
    /\ UNCHANGED <<fields, locals, hist, generated, dissents>>

\* The return after the loop; it reads the locals tally and proposals.
Escalate ==
    /\ pc = "escalating"
    /\ {"tally", "proposals"} \subseteq bound
    /\ result' = [status |-> "escalated", iterations |-> max_iterations,
                  final_tally |-> tally, proposals |-> proposals,
                  awaiting_human_decision |-> TRUE]
    /\ pc' = "done"
    /\ UNCHANGED <<fields, locals, hist, generated, dissents>>

\* The return after the loop when tally was never bound: UnboundLocalError.
EscalateUnbound ==
    /\ pc = "escalating"
    /\ ~({"tally", "proposals"} \subseteq bound)
    /\ pc' = "failed"
    /\ UNCHANGED <<fields, locals, result, hist, generated, dissents>>

Next ==
    \/ Phase1
    \/ Phase2Vote
    \/ Tally
    \/ CheckConsensus
    \/ ReturnConsensus
    \/ Dissent
    \/ LoopExhausted
    \/ Escalate
    \/ EscalateUnbound

Spec == Init /\ [][Next]_vars

\* orchestrate is a sequential function: it keeps running until it returns.
LiveInit == Init /\ max_iterations <= MaxLiveIter

LiveSpec == LiveInit /\ [][Next]_vars /\ WF_vars(Next)


\* --------------------------------------- the tally functions on their own
\* __init__'s default for max_iterations.
DefaultMaxIterations == 5

\* Name of the i-th voter of a vote list: the three models, then further ones.
VoterName(i) == IF i <= Len(Agents) THEN Agents[i] ELSE "Voter" \o ToString(i)

\* The vote lists of n voters, one Vote each.
VoteLists(n) ==
    {[i \in 1..n |-> Vote(VoterName(i), c[i])] : c \in [1..n -> Choices]}

\* An orchestrator as constructed, and a vote list for tally_votes.
FnInit ==
    /\ problem = "problem"
    /\ context = ""
    /\ max_iterations = DefaultMaxIterations
    /\ rounds = << >>
    /\ human_decision = None
    /\ final_solution = None
    /\ proposals = phase1_opus_proposes
    /\ iteration = -1
    /\ votes \in UNION {VoteLists(n) : n \in 0..MaxVotes}
    /\ tally = EmptyDict
    /\ winner = None
    /\ bound = {"votes"}
    /\ pc = "fn_votes"
    /\ result = NoResult
    /\ hist = << >>
    /\ generated = {}
    /\ dissents = << >>

\* A call tally_votes(votes).
FnTally ==
    /\ pc = "fn_votes"
    /\ tally' = tally_votes(votes)
    /\ bound' = bound \cup {"tally"}
    /\ pc' = "fn_tallied"
    /\ UNCHANGED <<fields, proposals, iteration, votes, winner, result, hist,
                   generated, dissents>>

\* A call check_consensus(tally).
FnCheck ==
    /\ pc = "fn_tallied"
    /\ winner' = check_consensus(tally)
    /\ bound' = bound \cup {"winner"}
    /\ pc' = "fn_checked"
    /\ UNCHANGED <<fields, proposals, iteration, votes, tally, result, hist,
                   generated, dissents>>

FnNext == FnTally \/ FnCheck

FnSpec == FnInit /\ [][FnNext]_vars

TypeOK ==
    /\ max_iterations \in 0..MaxIter
    /\ iteration \in -1..MaxIter
    /\ pc \in {"proposing", "voting", "tallying", "checking", "decided",
               "escalating", "done", "failed"}
    /\ Len(votes) <= Len(Agents)
    /\ Len(hist) <= MaxIter
\* ------------------------------------------------------------ properties
\* Number of configured voting agents.
NumAgents == Len(Agents)

\* Sum of the counts of a tally.
RECURSIVE SumOver(_, _)
SumOver(t, keys) ==
    IF keys = {} THEN 0
    ELSE LET k == CHOOSE x \in keys : TRUE
         IN  t[k] + SumOver(t, keys \ {k})

Sum(t) == SumOver(t, DOMAIN t)

\* Some label of the tally holds the votes of all agents.
Unanimous(t) == \E p \in DOMAIN t : t[p] = NumAgents

Done == pc = "done"
Consensus == Done /\ result.status = "consensus"
Escalated == Done /\ result.status = "escalated"
LastRound == hist[Len(hist)]

\* C1 (safety part): with max_iterations >= 1 the rounds voted are numbered
\* 0, 1, 2, ... in steps of one, every index used is below max_iterations, at
\* most max_iterations rounds are voted, and a finished run is in exactly one
\* of the states 'consensus' and 'escalated'.
C1_RoundsBounded ==
    max_iterations >= 1 =>
        /\ Len(hist) <= max_iterations
        /\ \A k \in 1..Len(hist) :
              hist[k].iteration = k - 1 /\ hist[k].iteration < max_iterations
        /\ pc \in {"voting", "tallying", "checking"} =>
              iteration = Len(hist) /\ iteration < max_iterations
        /\ pc = "decided" => iteration = Len(hist) - 1
        /\ pc # "failed"
        /\ Done => result.status \in {"consensus", "escalated"}

\* C1: for every max_iterations >= 1 and every sequence of votes, orchestrate
\* terminates with status 'consensus' or 'escalated' after at most
\* max_iterations rounds, whose indices 0, 1, ... increase by one and never
\* reach max_iterations.
C1_Terminates ==
    /\ []C1_RoundsBounded
    /\ <>(max_iterations = 0 \/ Done)

\* A run that used all of its max_iterations >= 2 rounds and was escalated.
C1_Witness ==
    /\ Escalated
    /\ max_iterations >= 2
    /\ Len(hist) = max_iterations

LabelsGrow ==
    \A k \in 1..Len(hist) : \A j \in 1..k : hist[j].labels \subseteq hist[k].labels

\* C4: the Proposal Set is append-only: no step removes a label or changes the
\* content stored under an existing label, and the labels votable in a round
\* are a subset of the labels votable in the next round.
C4_AppendOnly ==
    [][ /\ DOMAIN proposals \subseteq DOMAIN proposals'
        /\ \A l \in DOMAIN proposals : proposals'[l] = proposals[l]
        /\ LabelsGrow' ]_vars

\* A second round was voted on a set that the Dissent Resolver had extended.
C4_Witness ==
    /\ Len(hist) >= 2
    /\ "Alt_0" \in hist[2].labels
    /\ "Alt_0" \notin hist[1].labels
    /\ {"A", "B", "C"} \subseteq hist[2].labels

\* C5: in every round the counts of the tally sum to the number of votes
\* collected, which is at most the number of voting agents and equal to it
\* when every agent voted; every count is at least 1.
C5_TallySum ==
    /\ pc \in {"checking", "decided", "escalating", "done"} =>
          /\ Sum(tally) = Len(votes)
          /\ Len(votes) <= NumAgents
          /\ {votes[i].model : i \in 1..Len(votes)} = {Agents[i] : i \in 1..NumAgents}
                => Sum(tally) = NumAgents
          /\ \A p \in DOMAIN tally : tally[p] >= 1
    /\ \A k \in 1..Len(hist) :
          /\ Sum(hist[k].tally) = hist[k].nvotes
          /\ hist[k].nvotes <= NumAgents
          /\ \A p \in DOMAIN hist[k].tally : hist[k].tally[p] >= 1

\* A round tallied with one abstention and a split of the two votes.
C5_Witness ==
    /\ pc = "checking"
    /\ Len(votes) = 2
    /\ Cardinality(DOMAIN tally) = 2
\* C6: a vote whose label is not a key of the Proposal Set is never counted:
\* every key of a round's tally is a label of that round's Proposal Set, the
\* counts only cover votes on such labels, and the winner of a 'consensus'
\* result is a label of the Proposal Set.
C6_UnknownLabelNotCounted ==
    /\ \A k \in 1..Len(hist) : DOMAIN hist[k].tally \subseteq hist[k].labels
    /\ pc \in {"checking", "decided"} =>
          Sum(tally) = Cardinality({i \in 1..Len(votes) :
                                       votes[i].choice \in DOMAIN proposals})
    /\ Consensus => result.winner \in DOMAIN proposals

\* Rounds in which an agent cast no vote.
Abstained(k) == hist[k].nvotes < NumAgents

\* C7: a missing vote does not abort the round: the votes that remain are
\* tallied and the run goes on; when in every round at least one of the three
\* agents abstains, no round has a winner and the run ends 'escalated' after
\* max_iterations rounds, also when the responding agents always agree.
C7_AbstentionEscalates ==
    /\ \A k \in 1..Len(hist) :
          Abstained(k) =>
              /\ hist[k].winner = None
              /\ Sum(hist[k].tally) = hist[k].nvotes
              /\ k = Len(hist) => pc # "done" \/ result.status = "escalated"
    /\ (max_iterations >= 1 /\ \A k \in 1..Len(hist) : Abstained(k)) =>
          /\ pc # "failed"
          /\ Done => /\ result.status = "escalated"
                     /\ Len(hist) = max_iterations
                     /\ result.iterations = max_iterations

\* Two agents agreed on A in each of two rounds, the third never voted.
C7_Witness ==
    /\ Escalated
    /\ Len(hist) = 2
    /\ \A k \in 1..2 : hist[k].tally = [A |-> 2]

\* C8: an 'escalated' result holds every proposal generated during the run,
\* A, B, C and every alternative the Dissent Resolver added, with its
\* content, and its final_tally is the tally of round max_iterations - 1.
C8_EscalatedComplete ==
    Escalated =>
        /\ {"A", "B", "C"} \subseteq DOMAIN result.proposals
        /\ \A g \in generated :
              g[1] \in DOMAIN result.proposals /\ result.proposals[g[1]] = g[2]
        /\ \A k \in 1..Len(hist) : hist[k].labels \subseteq DOMAIN result.proposals
        /\ LastRound.iteration = max_iterations - 1
        /\ result.final_tally = LastRound.tally

\* An escalation after three rounds with two alternatives, whose last tally
\* differs from the tallies of the earlier rounds.
C8_Witness ==
    /\ Escalated
    /\ Len(hist) = 3
    /\ {"Alt_0", "Alt_1"} \subseteq DOMAIN result.proposals
    /\ hist[1].tally # hist[3].tally
    /\ hist[2].tally # hist[3].tally

\* C9: after k rounds were voted and tallied, self.rounds holds exactly k
\* Round records in increasing iteration order, each with the round's
\* proposals, tally and winner, and an 'escalated' result carries them.
C9_RoundHistory ==
    /\ Len(rounds) = Len(hist)
    /\ \A k \in 1..Len(rounds) :
          /\ rounds[k].iteration = k - 1
          /\ DOMAIN rounds[k].proposals = hist[k].labels
          /\ rounds[k].tally = hist[k].tally
          /\ rounds[k].consensus = hist[k].winner
    /\ Escalated => "rounds" \in DOMAIN result /\ result.rounds = rounds

\* The choices of a vote list, in order.
ChoicesOf(vs) == [i \in 1..Len(vs) |-> vs[i].choice]

\* C10: a 'consensus' result has the unanimous label as winner, iteration =
\* round index + 1 and the votes of the winning round only.  Three votes B
\* in round 0 give {consensus, B, 1}; votes A, A, B in round 0 give the tally
\* {A: 2, B: 1} and no winner, Alt_0 is then added, and three votes Alt_0 in
\* round 1 give {consensus, Alt_0, 2}.
C10_ConsensusResult ==
    /\ Consensus =>
          /\ result.winner = LastRound.winner
          /\ LastRound.tally[result.winner] = NumAgents
          /\ result.iteration = LastRound.iteration + 1
          /\ result.votes = votes
          /\ Len(result.votes) = NumAgents
          /\ \A i \in 1..NumAgents :
                /\ result.votes[i].choice = result.winner
                /\ result.votes[i].model = Agents[i]
    /\ (Done /\ Len(hist) = 1 /\ hist[1].tally = [B |-> 3]) =>
          /\ result.status = "consensus"
          /\ result.winner = "B"
          /\ result.iteration = 1
    /\ (pc \in {"checking", "decided"} /\ iteration = 0
           /\ ChoicesOf(votes) = <<"A", "A", "B">>) =>
          /\ tally = [A |-> 2, B |-> 1]
          /\ pc = "decided" => winner = None
    /\ (Len(hist) >= 1 /\ hist[1].tally = [A |-> 2, B |-> 1]
           /\ max_iterations >= 2 /\ (Len(hist) >= 2 \/ pc = "voting")) =>
          /\ "Alt_0" \in DOMAIN proposals
          /\ proposals["Alt_0"].name = "Alternative 0"
    /\ (Done /\ Len(hist) = 2 /\ hist[1].tally = [A |-> 2, B |-> 1]
             /\ hist[2].tally = [Alt_0 |-> 3]) =>
          /\ result.status = "consensus"
          /\ result.winner = "Alt_0"
          /\ result.iteration = 2
          /\ ChoicesOf(result.votes) = <<"Alt_0", "Alt_0", "Alt_0">>

\* Votes A, A, B in round 0, then a unanimous round 1 for Alt_0.
C10_Witness ==
    /\ Consensus
    /\ Len(hist) = 2
    /\ hist[1].tally = [A |-> 2, B |-> 1]
    /\ result.winner = "Alt_0"
    /\ "Alt_0" \in hist[2].labels
\* The permutations of 1..n.
Perms(n) == {f \in [1..n -> 1..n] : \A i, j \in 1..n : i # j => f[i] # f[j]}

\* Number of votes of the list whose choice is the label l.
CountOf(vs, l) == Cardinality({i \in 1..Len(vs) : vs[i].choice = l})

\* C11: tally_votes is a function of the vote list alone: a second call gives
\* the same tally, every permutation of the list gives the same mapping, the
\* empty list gives the empty tally, each label's count is the number of
\* votes choosing it, and the call leaves the vote list unchanged.
C11_TallyPure ==
    /\ [](pc \in {"fn_tallied", "fn_checked"} =>
            /\ tally_votes(votes) = tally
            /\ \A f \in Perms(Len(votes)) :
                  tally_votes([i \in 1..Len(votes) |-> votes[f[i]]]) = tally
            /\ votes = << >> => DOMAIN tally = {}
            /\ DOMAIN tally = {votes[i].choice : i \in 1..Len(votes)}
            /\ \A l \in DOMAIN tally : tally[l] = CountOf(votes, l))
    /\ [][pc = "fn_votes" => votes' = votes]_vars

\* The list A, B, A was tallied to {A: 2, B: 1}.
C11_Witness ==
    /\ pc = "fn_tallied"
    /\ ChoicesOf(votes) = <<"A", "B", "A">>
    /\ tally = [A |-> 2, B |-> 1]
\* C12: the consensus threshold is the number N of voting agents, for every
\* N: check_consensus returns a label only if its count equals N (three of
\* four votes are no winner), and a label holding all N votes is the winner
\* (also when N < 3).  N is the length of a vote list in which every
\* configured agent voted.
C12_ThresholdIsVoterCount ==
    pc = "fn_checked" =>
        /\ winner # None => winner \in DOMAIN tally /\ tally[winner] = Len(votes)
        /\ \A l \in DOMAIN tally : tally[l] = Len(votes) => winner = l
\* The Dissent Resolver ran once after each round before the current one and
\* after no other: only after rounds without a winner that were not the last.
DissentAfterRounds ==
    /\ \A k \in 1..Len(dissents) :
          /\ dissents[k] = k - 1
          /\ k <= Len(hist)
          /\ ~Unanimous(hist[k].tally)
          /\ dissents[k] < max_iterations - 1
    /\ pc = "proposing" => hist = << >> /\ dissents = << >>
    /\ pc \in {"voting", "tallying", "checking"} =>
          Len(dissents) = Len(hist) /\ iteration = Len(hist)
    /\ (pc \in {"decided", "escalating", "done"} /\ Len(hist) >= 1) =>
          Len(dissents) = Len(hist) - 1

\* The order of the steps of one run.
StepOrder ==
    /\ pc' # "proposing"
    /\ pc = "proposing" =>
          /\ pc' \in {"voting", "escalating"}
          /\ pc' = "voting" => iteration' = 0
    /\ pc = "voting" => pc' = "tallying" /\ iteration' = iteration
    /\ pc = "tallying" => pc' = "checking" /\ iteration' = iteration
    /\ pc = "checking" => pc' = "decided" /\ iteration' = iteration
    /\ pc = "decided" =>
          \/ /\ Unanimous(tally)
             /\ pc' = "done"
             /\ dissents' = dissents
          \/ /\ ~Unanimous(tally)
             /\ iteration < max_iterations - 1
             /\ pc' = "voting"
             /\ iteration' = iteration + 1
             /\ dissents' = Append(dissents, iteration)
          \/ /\ ~Unanimous(tally)
             /\ iteration = max_iterations - 1
             /\ pc' = "escalating"
             /\ dissents' = dissents
    /\ dissents' # dissents => pc = "decided"

AltLabels(r) == {"Alt_" \o ToString(i) : i \in 0..(r - 1)}

InitialLabels == {"A", "B", "C"}

\* The Proposal Set of round r = k - 1 is A, B, C plus some of Alt_0..Alt_(r-1).
RoundLabels ==
    /\ \A k \in 1..Len(hist) :
          /\ InitialLabels \subseteq hist[k].labels
          /\ hist[k].labels \subseteq InitialLabels \cup AltLabels(k - 1)
          /\ Cardinality(hist[k].labels) <= 3 + (k - 1)
          /\ hist[k].iteration = k - 1
    /\ Len(hist) >= 1 => hist[1].labels = InitialLabels
    /\ pc = "voting" =>
          /\ InitialLabels \subseteq DOMAIN proposals
          /\ DOMAIN proposals \subseteq InitialLabels \cup AltLabels(iteration)
    /\ max_iterations >= 1 =>
          Cardinality(DOMAIN proposals) <= 3 + (max_iterations - 1)

\* A Dissent Resolver call at round i adds at most the label Alt_i, which was
\* not there before, and rewrites no label.
DissentAddsAtMostOne ==
    dissents' # dissents =>
        /\ (DOMAIN proposals') \ (DOMAIN proposals)
              \subseteq {"Alt_" \o ToString(iteration)}
        /\ ("Alt_" \o ToString(iteration)) \notin DOMAIN proposals
        /\ \A l \in DOMAIN proposals :
              l \in DOMAIN proposals' /\ proposals'[l] = proposals[l]

\* C14: round r is voted on A, B, C plus a subset of Alt_0..Alt_(r-1), round 0
\* on exactly A, B, C; each Dissent Resolver call at round i adds at most the
\* one label Alt_i, which was not present before; the set never has more
\* than 3 + r labels, at most 3 + (max_iterations - 1) in a run.
C14_ProposalLabels ==
    /\ []RoundLabels
    /\ [][DissentAddsAtMostOne]_vars

\* The third round is voted on A, B, C, Alt_0 and Alt_1.
C14_Witness ==
    /\ pc = "decided"
    /\ Len(hist) = 3
    /\ hist[3].labels = {"A", "B", "C", "Alt_0", "Alt_1"}
    /\ hist[2].labels = {"A", "B", "C", "Alt_0"}
\* A label with a nonzero count below the number of voting agents.
HasMinority(t) == \E l \in DOMAIN t : t[l] >= 1 /\ t[l] < NumAgents

\* C15: whenever the Dissent Resolver runs on a tally with a minority label
\* (nonzero count below the voter count) it adds exactly one new alternative
\* Alt_<round> for the next round, also when no label has count exactly 1.
C15_MinorityGetsAlternative ==
    [][ (dissents' # dissents /\ HasMinority(tally)) =>
            /\ DOMAIN proposals \subseteq DOMAIN proposals'
            /\ (DOMAIN proposals') \ (DOMAIN proposals)
                  = {"Alt_" \o ToString(iteration)} ]_vars
\* C16: the Proposal Set is read-only during voting, tallying and the
\* consensus check; after its construction only phase3_dissent changes it,
\* in the one call between a round's consensus check and the next vote.
C16_ProposalsReadOnly ==
    [][ /\ pc \in {"voting", "tallying", "checking"} => proposals' = proposals
        /\ (proposals' # proposals /\ pc # "proposing") =>
              /\ pc = "decided"
              /\ pc' = "voting"
              /\ dissents' = Append(dissents, iteration)
              /\ Len(dissents') = iteration' ]_vars

\* Round 1 was voted and tallied on the set that the Dissent Resolver extended.
C16_Witness ==
    /\ pc = "decided"
    /\ iteration = 1
    /\ DOMAIN proposals = {"A", "B", "C", "Alt_0"}
    /\ hist[2].labels = DOMAIN proposals
\* A unanimous round is the last round of the run and the first unanimous one;
\* nothing was voted or generated after it.
UnanimousRoundIsLast ==
    \A k \in 1..Len(hist) :
        Unanimous(hist[k].tally) =>
            /\ k = Len(hist)
            /\ \A j \in 1..(k - 1) : ~Unanimous(hist[j].tally)
            /\ pc \in {"decided", "done"}
            /\ iteration = k - 1
            /\ Len(dissents) = k - 1
            /\ DOMAIN proposals = hist[k].labels
            /\ tally = hist[k].tally
            /\ Done => /\ result.status = "consensus"
                       /\ result.iteration = k
                       /\ result.votes = votes

\* After a unanimous tally the only step is the return, which changes neither
\* the votes, the Proposal Set nor the histories; nothing follows the return.
ReturnAfterUnanimous ==
    /\ (pc = "decided" /\ Unanimous(tally)) =>
          /\ pc' = "done"
          /\ UNCHANGED <<proposals, votes, tally, iteration, hist, generated,
                         dissents>>
    /\ pc # "done"

C18_EscalationAfterRound ==
    /\ pc = "escalating" => Len(hist) >= 1 /\ "tally" \in bound
    /\ Escalated => Len(hist) >= 1 /\ result.final_tally = LastRound.tally
    /\ pc # "failed"

\* final_solution is None until the run ends, the winner after a 'consensus'
\* and None after an 'escalated'.
FinalSolutionSet ==
    /\ pc # "done" => final_solution = None
    /\ Consensus => final_solution = result.winner /\ final_solution # None
    /\ Escalated => final_solution = None

\* C19: final_solution is None before termination, is set exactly when the
\* run ends 'consensus' and then equals the winner, and is None when the run
\* ends 'escalated'; problem, context, max_iterations and human_decision are
\* changed by no step.
C19_FieldsFrame ==
    /\ []FinalSolutionSet
    /\ [][ /\ UNCHANGED <<problem, context, max_iterations, human_decision>>
           /\ final_solution' # final_solution =>
                 pc' = "done" /\ result'.status = "consensus" ]_vars

\* A run ended with consensus on B.
C19_Witness ==
    /\ Consensus
    /\ final_solution = "B"
    /\ human_decision = None
====
